---- MODULE Spec2Model ----
(***************************************************************************)
(* sorty: duplicate-file finder (src/src/main.rs).                         *)
(*                                                                         *)
(* The filesystem under the root is the input: a small tree of entries,    *)
(* each a regular file with some byte content, a directory, or a symbolic  *)
(* link, some of which fail one of the I/O calls the program makes.        *)
(* The program state is main()'s locals and its position.                  *)
(***************************************************************************)
EXTENDS Integers, Sequences, FiniteSets, TLC

\* ------------------------------------------------------------- bounds
\* Bytes read per file.read() call (the size of buf, scaled down).
ChunkSize == 1
\* How many (entry, I/O call) pairs of the tree fail.
MaxFaults == 1
\* Largest value the clock can show when the scan ends.
MaxElapsed == 1

\* --------------------------------------------------------- filesystem
Root == 0
Nodes == 1..6
Paths == {Root} \cup Nodes

\* The order in which read_dir yields the entries of each directory.
Listing(p) ==
    CASE p = 0 -> <<1, 2, 3, 4>>
      [] p = 3 -> <<5>>
      [] p = 5 -> <<6>>
      [] OTHER -> <<>>

Parent(n) ==
    CASE n = 5 -> 3
      [] n = 6 -> 5
      [] OTHER -> 0

Contents == {<<>>, <<0>>, <<1>>, <<0, 1>>}

VARIABLES
    kind,          \* Paths -> "absent" | "file" | "dir" | "symlink" | "special"
    content,       \* Paths -> byte sequence (of regular files)
    faults,        \* set of <<path, call>>: the call fails on that path
    recursive,     \* the -r flag
    pc,            \* position in main()
    files,         \* collect_files: non-empty regular files, traversal order
    empty_files,   \* collect_files: zero-length regular files
    size_buckets,  \* group_by_size: size -> paths (what into_iter has left)
    groups,        \* group_by_hash: Vec<Vec<PathBuf>>
    ops,           \* I/O calls made since parse_args returned: <<call, path>>
    output,        \* what was printed
    prev           \* the previous run's duplicate groups (a set of sets)

fsvars == <<kind, content, faults, recursive>>
vars == <<kind, content, faults, recursive, pc, files, empty_files,
          size_buckets, groups, ops, output, prev>>

Range(s) == {s[i] : i \in 1..Len(s)}

NoOutput == [kind |-> "none", groups |-> <<>>, empty_files |-> <<>>, elapsed |-> -1]
NoPrev == [ran |-> FALSE, groups |-> <<>>]

\* ----------------------------------------------------- filesystem calls
\* Path::exists, Path::is_dir, Path::is_file (they follow symbolic links, so a
\* root given through a link has the kind of what the link points to).
path_exists_always(p) == TRUE
path_exists(p) == kind[p] # "absent"
is_dir(p) == kind[p] = "dir"
is_file(p) == kind[p] = "file"

\* DirEntry::metadata (does not follow links), fs::metadata, fs::read_dir and
\* File::open/read: TRUE when the call returns Ok.
entry_metadata_ok(p) == <<p, "meta">> \notin faults
fs_metadata_ok(p) == <<p, "stat">> \notin faults
read_dir_ok(p) == <<p, "list">> \notin faults
read_ok(p) == <<p, "read">> \notin faults

\* meta.len()
len(p) == Len(content[p])

\* The entries read_dir yields for directory p, in listing order.
DirEntries(p) == SelectSeq(Listing(p), LAMBDA n : kind[n] # "absent")

\* ------------------------------------------------------------ hash_file
\* The hasher's state is the encoding of the bytes fed so far: a leading 1
\* followed by the bytes as binary digits, so distinct byte strings have
\* distinct digests (no collisions), whatever the chunking.
hasher_new == 1

\* A hasher fed the number of bytes read instead of the bytes.
hasher_update_len(h, bytes) == h + Len(bytes)

RECURSIVE hasher_update(_, _)
hasher_update(h, bytes) ==
    IF bytes = <<>> THEN h
    ELSE hasher_update(2 * h + Head(bytes), Tail(bytes))

hasher_finalize(h) == h

\* file.read(&mut buf): the next n <= len(buf) bytes; n = 0 at end of file.
file_read(bytes, pos) ==
    SubSeq(bytes, pos + 1, IF pos + ChunkSize < Len(bytes) THEN pos + ChunkSize ELSE Len(bytes))

RECURSIVE hash_loop(_, _, _)
hash_loop(bytes, pos, h) ==
    LET buf == file_read(bytes, pos)
        n == Len(buf)
    IN  IF n = 0 THEN hasher_finalize(h)
        ELSE hash_loop(bytes, pos + n, hasher_update(h, buf))

\* [ok, hash]: Err when the file cannot be opened or a read fails.
hash_file(p) ==
    IF ~read_ok(p) THEN [ok |-> FALSE, hash |-> 0]
    ELSE [ok |-> TRUE, hash |-> hash_loop(content[p], 0, hasher_new)]

\* -------------------------------------------------------- collect_files
\* `if meta.len() == 0 { empty_files.push(p) } else { files.push(p) }`
classify_all_files(p) == "files"
classify(p) == IF len(p) = 0 THEN "empty_files" ELSE "files"

\* `if recursive { collect_files(&p, recursive)? ... }`
descend_always(rec) == TRUE
descend(rec) == rec

CollectErr(o) == [ok |-> FALSE, files |-> <<>>, empty_files |-> <<>>, ops |-> o]

RECURSIVE collect_files(_, _), collect_entries(_, _, _)

\* The body of `for entry_res in fs::read_dir(path)?` from entry `entries[1]` on.
collect_entries(entries, rec, acc) ==
    IF entries = <<>> THEN acc
    ELSE
      LET p == Head(entries)
          rest == Tail(entries)
          acc1 == [acc EXCEPT !.ops = @ \cup {<<"metadata", p>>}]
      IN  IF ~entry_metadata_ok(p) THEN collect_entries(rest, rec, acc1)
          ELSE IF kind[p] = "dir" THEN
              IF descend(rec) THEN
                  LET sub == collect_files(p, rec)
                  IN  IF ~sub.ok THEN CollectErr(acc1.ops \cup sub.ops)
                      ELSE collect_entries(rest, rec,
                              [ok |-> TRUE,
                               files |-> acc1.files \o sub.files,
                               empty_files |-> acc1.empty_files \o sub.empty_files,
                               ops |-> acc1.ops \cup sub.ops])
              ELSE collect_entries(rest, rec, acc1)
          ELSE IF kind[p] = "file" THEN
              IF classify(p) = "empty_files"
              THEN collect_entries(rest, rec, [acc1 EXCEPT !.empty_files = Append(@, p)])
              ELSE collect_entries(rest, rec, [acc1 EXCEPT !.files = Append(@, p)])
          ELSE collect_entries(rest, rec, acc1)

collect_files(path, rec) ==
    IF is_dir(path) THEN
        IF ~read_dir_ok(path) THEN CollectErr({<<"read_dir", path>>})
        ELSE collect_entries(DirEntries(path), rec,
                [ok |-> TRUE, files |-> <<>>, empty_files |-> <<>>,
                 ops |-> {<<"read_dir", path>>}])
    ELSE IF is_file(path) THEN
        IF ~fs_metadata_ok(path) THEN CollectErr({<<"metadata", path>>})
        ELSE IF classify(path) = "empty_files"
        THEN [ok |-> TRUE, files |-> <<>>, empty_files |-> <<path>>,
              ops |-> {<<"metadata", path>>}]
        ELSE [ok |-> TRUE, files |-> <<path>>, empty_files |-> <<>>,
              ops |-> {<<"metadata", path>>}]
    ELSE [ok |-> TRUE, files |-> <<>>, empty_files |-> <<>>, ops |-> {}]

\* -------------------------------------------------------- group_by_size
\* map.entry(key).or_default().push(p)
entry_push_front(map, key, p) ==
    IF key \in DOMAIN map
    THEN [map EXCEPT ![key] = <<p>> \o @]
    ELSE [k \in DOMAIN map \cup {key} |-> IF k = key THEN <<p>> ELSE map[k]]

entry_push(map, key, p) ==
    IF key \in DOMAIN map
    THEN [map EXCEPT ![key] = Append(@, p)]
    ELSE [k \in DOMAIN map \cup {key} |-> IF k = key THEN <<p>> ELSE map[k]]

EmptyMap == [k \in {} |-> <<>>]

RECURSIVE size_loop(_, _)
size_loop(fs, map) ==
    IF fs = <<>> THEN map
    ELSE LET p == Head(fs)
         IN  IF fs_metadata_ok(p)
             THEN size_loop(Tail(fs), entry_push(map, len(p), p))
             ELSE size_loop(Tail(fs), map)

group_by_size(fs) == size_loop(fs, EmptyMap)

\* -------------------------------------------------------- group_by_hash
\* `if bucket.len() <= 1 { continue; }`
skip_bucket_pairs(bucket) == Len(bucket) <= 2
skip_bucket_none(bucket) == Len(bucket) < 1
skip_bucket(bucket) == Len(bucket) <= 1

\* `for p in bucket { match hash_file(&p) ... }`: the bucket's hash_map.
\* The same loop, each path put at the front of its digest's list.
RECURSIVE hash_bucket_front(_, _)
hash_bucket_front(bucket, hash_map) ==
    IF bucket = <<>> THEN hash_map
    ELSE LET p == Head(bucket)
             r == hash_file(p)
         IN  IF r.ok
             THEN hash_bucket_front(Tail(bucket), entry_push_front(hash_map, r.hash, p))
             ELSE hash_bucket_front(Tail(bucket), hash_map)

RECURSIVE hash_bucket(_, _)
hash_bucket(bucket, hash_map) ==
    IF bucket = <<>> THEN hash_map
    ELSE LET p == Head(bucket)
             r == hash_file(p)
         IN  IF r.ok
             THEN hash_bucket(Tail(bucket), entry_push(hash_map, r.hash, p))
             ELSE hash_bucket(Tail(bucket), hash_map)

\* `for (_h, v) in hash_map { if v.len() > 1 { groups.push(v); } }`, the map
\* iterated in the order `order` (a sequence of its keys).
\* The loop left at the first list pushed.
RECURSIVE push_groups_first(_, _, _)
push_groups_first(gs, hash_map, order) ==
    IF order = <<>> THEN gs
    ELSE LET v == hash_map[Head(order)]
         IN  IF Len(v) > 1 THEN Append(gs, v)
             ELSE push_groups_first(gs, hash_map, Tail(order))

RECURSIVE push_groups(_, _, _)
push_groups(gs, hash_map, order) ==
    IF order = <<>> THEN gs
    ELSE LET v == hash_map[Head(order)]
         IN  push_groups(IF Len(v) > 1 THEN Append(gs, v) ELSE gs, hash_map, Tail(order))

\* The orders a HashMap with key set S can be iterated in.
IterOrders(S) ==
    {f \in [1..Cardinality(S) -> S] : \A i, j \in 1..Cardinality(S) : i # j => f[i] # f[j]}

Remove(map, key) == [k \in DOMAIN map \ {key} |-> map[k]]

\* ----------------------------------------------------------------- Init
RootKinds == {"absent", "file", "dir", "special"}
EntryKinds(n) ==
    CASE n = 3 -> {"absent", "dir", "symlink"}
      [] n = 5 -> {"absent", "file", "dir"}
      [] OTHER -> {"absent", "file"}

\* Trees: an entry exists only inside a directory.
Trees ==
    {k \in [Paths -> {"absent", "file", "dir", "symlink", "special"}] :
        /\ k[Root] \in RootKinds
        /\ \A n \in Nodes :
              IF k[Parent(n)] = "dir" THEN k[n] \in EntryKinds(n) ELSE k[n] = "absent"}

\* The calls that can fail on the entries of tree k.
FaultChoices(k) ==
    {<<n, "meta">> : n \in {m \in Nodes : k[m] # "absent"}}
    \cup {<<p, c>> : p \in {q \in Paths : k[q] = "file"}, c \in {"stat", "read"}}
    \cup {<<p, "list">> : p \in {q \in Paths : k[q] = "dir"}}

RECURSIVE SubsetsUpTo(_, _)
SubsetsUpTo(S, n) ==
    IF n = 0 THEN {{}}
    ELSE LET smaller == SubsetsUpTo(S, n - 1)
         IN  smaller \cup {s \cup {x} : s \in smaller, x \in S}

Init ==
    /\ kind \in Trees
    /\ \E c \in [{p \in Paths : kind[p] = "file"} -> Contents] :
          content = [p \in Paths |-> IF kind[p] = "file" THEN c[p] ELSE <<>>]
    /\ faults \in SubsetsUpTo(FaultChoices(kind), MaxFaults)
    /\ recursive \in BOOLEAN
    /\ pc = "parse_args"
    /\ files = <<>>
    /\ empty_files = <<>>
    /\ size_buckets = EmptyMap
    /\ groups = <<>>
    /\ ops = {}
    /\ output = NoOutput
    /\ prev = NoPrev

\* -------------------------------------------------------------- actions
\* parse_args: `if !path.exists() { return Err(..) }`; main returns the error.
ParseArgs ==
    /\ pc = "parse_args"
    /\ pc' = IF path_exists(Root) THEN "collect_files" ELSE "error"
    /\ UNCHANGED <<fsvars, files, empty_files, size_buckets, groups, ops, output, prev>>

\* main: `let (files, empty_files) = collect_files(&path, recursive)?;`
CollectFiles ==
    /\ pc = "collect_files"
    /\ LET r == collect_files(Root, recursive)
       IN  /\ files' = r.files
           /\ empty_files' = r.empty_files
           /\ ops' = ops \cup r.ops
           /\ pc' = IF r.ok THEN "collected" ELSE "failed"
    /\ UNCHANGED <<fsvars, size_buckets, groups, output, prev>>

\* main: `if files.is_empty() { println!("No files to process."); ...; return Ok(()) }`
NoFiles ==
    /\ pc = "collected"
    /\ files = <<>>
    /\ output' = [kind |-> "no_files", groups |-> <<>>,
                  empty_files |-> empty_files, elapsed |-> -1]
    /\ pc' = "done"
    /\ UNCHANGED <<fsvars, files, empty_files, size_buckets, groups, ops, prev>>

\* main: `let size_buckets = group_by_size(files);`
GroupBySize ==
    /\ pc = "collected"
    /\ files # <<>>
    /\ size_buckets' = group_by_size(files)
    /\ ops' = ops \cup {<<"metadata", files[i]>> : i \in 1..Len(files)}
    /\ pc' = "group_by_hash"
    /\ UNCHANGED <<fsvars, files, empty_files, groups, output, prev>>

\* group_by_hash: one iteration of `for (_size, bucket) in size_buckets.into_iter()`,
\* the map yielding any of the buckets it still holds.
SkipBucket ==
    /\ pc = "group_by_hash"
    /\ \E size \in DOMAIN size_buckets :
          /\ skip_bucket(size_buckets[size])
          /\ size_buckets' = Remove(size_buckets, size)
    /\ UNCHANGED <<fsvars, files, empty_files, groups, ops, output, pc, prev>>

HashBucket ==
    /\ pc = "group_by_hash"
    /\ \E size \in DOMAIN size_buckets :
          LET bucket == size_buckets[size]
              hash_map == hash_bucket(bucket, EmptyMap)
          IN  /\ ~skip_bucket(bucket)
              /\ \E order \in IterOrders(DOMAIN hash_map) :
                    groups' = push_groups(groups, hash_map, order)
              /\ ops' = ops \cup {<<"hash_file", bucket[i]>> : i \in 1..Len(bucket)}
              /\ size_buckets' = Remove(size_buckets, size)
    /\ UNCHANGED <<fsvars, files, empty_files, output, pc, prev>>

\* main: `let duration = start.elapsed(); print_report(&groups, &empty_files, duration);`
PrintReport ==
    /\ pc = "group_by_hash"
    /\ DOMAIN size_buckets = {}
    /\ \E duration \in 0..MaxElapsed :
          output' = [kind |-> "report", groups |-> groups,
                     empty_files |-> empty_files, elapsed |-> duration]
    /\ pc' = "done"
    /\ UNCHANGED <<fsvars, files, empty_files, size_buckets, groups, ops, prev>>

Next == ParseArgs \/ CollectFiles \/ NoFiles \/ GroupBySize
        \/ SkipBucket \/ HashBucket \/ PrintReport

Spec == Init /\ [][Next]_vars

\* A second run of main() on the same, unmodified tree with the same flag:
\* every local is built afresh; only the first run's groups are remembered.
Rerun ==
    /\ pc = "done"
    /\ ~prev.ran
    /\ prev' = [ran |-> TRUE, groups |-> groups]
    /\ pc' = "parse_args"
    /\ files' = <<>>
    /\ empty_files' = <<>>
    /\ size_buckets' = EmptyMap
    /\ groups' = <<>>
    /\ ops' = {}
    /\ output' = NoOutput
    /\ UNCHANGED fsvars

NextTwice == Next \/ Rerun

SpecTwice == Init /\ [][NextTwice]_vars

\* ------------------------------------------------------------ vocabulary
\* collect_files has returned Ok and its two lists exist.
Collected == pc \in {"collected", "group_by_hash", "done"}

\* group_by_hash has returned: groups is the scan's result.
Grouped == pc = "done"

InGroup(p) == \E i \in 1..Len(groups) : p \in Range(groups[i])

GroupsWith(S) == {i \in 1..Len(groups) : S \subseteq Range(groups[i])}

\* The partition a Vec of groups stands for, its order forgotten.
GroupSets(gs) == {Range(gs[i]) : i \in 1..Len(gs)}

\* Position of p in sequence s (0 when absent).
IndexOf(s, p) == IF p \in Range(s) THEN CHOOSE i \in 1..Len(s) : s[i] = p ELSE 0

\* The scan can size and hash p: neither fs::metadata nor open/read fails on it.
Hashable(p) == fs_metadata_ok(p) /\ read_ok(p)

Hashed(p) == <<"hash_file", p>> \in ops

RECURSIVE Ancestors(_)
Ancestors(n) == IF n = Root THEN {} ELSE {Parent(n)} \cup Ancestors(Parent(n))

\* Entry n exists below a directory root.
Exists(n) == kind[n] # "absent"

\* DirEntry::metadata succeeds on n and on every directory between it and the root.
MetadataReadable(n) ==
    /\ entry_metadata_ok(n)
    /\ \A a \in Ancestors(n) \ {Root} : entry_metadata_ok(a)

\* The traversal reached p and read its metadata.
Visited(p) ==
    /\ <<"metadata", p>> \in ops
    /\ IF p = Root THEN fs_metadata_ok(p) ELSE entry_metadata_ok(p)

\* ------------------------------------------------------------------- C1
\* C1 (as stated): once the scan has finished, any two distinct candidate files of
\* non-zero length with identical content are together in exactly one group.
C1_IdenticalPairsGrouped ==
    Grouped =>
        \A a, b \in Range(files) :
            (a # b /\ len(a) > 0 /\ content[a] = content[b])
                => Cardinality(GroupsWith({a, b})) = 1

\* C1 (amended): the same, for the pairs the scan can size and hash: a file whose
\* fs::metadata, open or read fails is dropped and joins no group.
C1_HashablePairsGrouped ==
    Grouped =>
        \A a, b \in Range(files) :
            (a # b /\ len(a) > 0 /\ content[a] = content[b]
                   /\ Hashable(a) /\ Hashable(b))
                => Cardinality(GroupsWith({a, b})) = 1

C1_Witness ==
    /\ Grouped
    /\ \E a, b \in Range(files) :
          /\ a # b /\ content[a] = content[b] /\ Hashable(a) /\ Hashable(b)
          /\ Hashed(a) /\ Hashed(b)
          /\ Cardinality(GroupsWith({a, b})) = 1

\* ------------------------------------------------------------------- C2
\* C2: at every point of the scan, any two members of one duplicate group have the
\* same byte content; in particular two candidates of equal size and different content
\* are never members of one group.
C2_GroupsAreContentEqual ==
    \A i \in 1..Len(groups) :
        \A a, b \in Range(groups[i]) : content[a] = content[b]

\* A bucket of exactly two hashed files of equal size and different content, and no group.
C2_Witness ==
    /\ Grouped
    /\ output.kind = "report"
    /\ groups = <<>>
    /\ \E a, b \in Range(files) :
          /\ a # b /\ len(a) = len(b) /\ content[a] # content[b]
          /\ Hashed(a) /\ Hashed(b) /\ Hashable(a) /\ Hashable(b)

\* ------------------------------------------------------------------- C3
\* C3: a regular file of length 0 that the traversal visited is in the empty-file
\* list as soon as collect_files has returned, is printed with the empty files when
\* the scan ends, is in no duplicate group, and hash_file is never called on it.
C3_EmptyFilesListedNeverHashed ==
    \A f \in Paths :
        (is_file(f) /\ len(f) = 0 /\ Visited(f)) =>
            /\ Collected => f \in Range(empty_files)
            /\ Grouped => f \in Range(output.empty_files)
            /\ ~InGroup(f)
            /\ ~Hashed(f)

C3_Witness ==
    /\ Grouped
    /\ groups # <<>>
    /\ \E f \in Nodes :
          /\ is_file(f) /\ len(f) = 0 /\ Visited(f)
          /\ f \in Range(output.empty_files)
          /\ ~Hashed(f)

\* ------------------------------------------------------------------- C4
\* C4: hash_file is never called on a candidate file whose length no other candidate
\* file has, and such a file is in no duplicate group.
C4_UniqueSizeNeverHashed ==
    \A f \in Range(files) :
        (\A g \in Range(files) : g # f => len(g) # len(f)) =>
            /\ ~Hashed(f)
            /\ ~InGroup(f)

C4_Witness ==
    /\ Grouped
    /\ groups # <<>>
    /\ \E f \in Range(files) :
          /\ \A g \in Range(files) : g # f => len(g) # len(f)
          /\ fs_metadata_ok(f)
          /\ ~Hashed(f)

\* ------------------------------------------------------------------- C5
\* What the lists and the groups hold.
Reported == Range(files) \cup Range(empty_files)
            \cup UNION {Range(groups[i]) : i \in 1..Len(groups)}

\* C5, flag off: everything reported is a regular file that is an immediate entry of
\* the root directory.
C5_FlagOff ==
    (is_dir(Root) /\ ~recursive) =>
        \A p \in Reported : p \in Range(Listing(Root)) /\ is_file(p)

\* C5 (as stated): flag off as above; flag on, once collect_files has returned its
\* lists, every regular file below the root is in one of them.
C5_RecursionFlag ==
    /\ C5_FlagOff
    /\ (is_dir(Root) /\ recursive /\ Collected) =>
          \A n \in Nodes :
              (Exists(n) /\ is_file(n))
                  => n \in Range(files) \cup Range(empty_files)

\* C5 (amended): flag on, every regular file below the root is in one of the lists,
\* provided DirEntry::metadata succeeds on it and on the directories above it.
C5_RecursionFlagReadable ==
    /\ C5_FlagOff
    /\ (is_dir(Root) /\ recursive /\ Collected) =>
          \A n \in Nodes :
              (Exists(n) /\ is_file(n) /\ MetadataReadable(n))
                  => n \in Range(files) \cup Range(empty_files)

\* A file three levels down, found and grouped by a recursive scan.
C5_Witness ==
    /\ recursive
    /\ Grouped
    /\ is_file(6)
    /\ 6 \in Range(files)
    /\ InGroup(6)

\* ------------------------------------------------------------------- C6
\* An entry below the root the scan cannot use: a symbolic link, or an entry on which
\* one of the calls the scan makes fails.
Unusable(n) == kind[n] = "symlink" \/ \E c \in {"meta", "stat", "read", "list"} : <<n, c>> \in faults

\* C6: with a directory root whose own listing succeeds, the scan never ends in a
\* caller-visible error, symbolic links and entries whose metadata cannot be read are
\* in neither list nor in a group, and no entry that a call fails on is in a group.
C6_UnreadableEntriesSkipped ==
    (is_dir(Root) /\ read_dir_ok(Root)) =>
        /\ pc \notin {"failed", "error"}
        /\ \A n \in Nodes :
              (kind[n] = "symlink" \/ ~entry_metadata_ok(n))
                  => n \notin Reported
        /\ \A n \in Nodes : Unusable(n) => ~InGroup(n)

\* ------------------------------------------------------------------- C7
\* What a failed parse_args leaves: no traversal call made, nothing printed.
PathNotFound ==
    /\ pc = "error"
    /\ ops = {}
    /\ output = NoOutput
    /\ files = <<>> /\ empty_files = <<>> /\ groups = <<>>

\* C7 (as stated): a root that is neither a regular file nor a directory makes the
\* scan fail with PathNotFound before any traversal call, and nothing is reported.
C7_NotFileNorDirFails ==
    (~is_file(Root) /\ ~is_dir(Root) /\ pc # "parse_args") => PathNotFound

\* C7 (amended): a root path that does not exist makes the scan fail with
\* PathNotFound before any traversal call, and nothing is reported.
C7_MissingRootFails ==
    (kind[Root] = "absent" /\ pc # "parse_args") => PathNotFound

C7_Witness == kind[Root] = "absent" /\ PathNotFound

\* ------------------------------------------------------------------- C8
\* C8: a scan of an existing empty directory that has ended has printed a report
\* with zero duplicate groups, no empty files and a non-negative elapsed duration.
C8_EmptyDirReport ==
    (is_dir(Root) /\ read_dir_ok(Root) /\ DirEntries(Root) = <<>>
        /\ pc \notin {"parse_args", "collect_files", "collected"}) =>
        /\ pc = "done"
        /\ output.kind = "report"
        /\ output.groups = <<>>
        /\ output.empty_files = <<>>
        /\ output.elapsed >= 0

\* ------------------------------------------------------------------- C9
\* C9: when a second run on the same tree has finished, its duplicate groups are, as
\* a set of member sets, those of the first run, whatever order either run's maps
\* were iterated in.
C9_SameGroupsOnRerun ==
    (prev.ran /\ Grouped) => GroupSets(groups) = GroupSets(prev.groups)

\* Two runs that pushed the same two groups in different orders.
C9_Witness ==
    /\ prev.ran
    /\ Grouped
    /\ Len(groups) = 2
    /\ groups # prev.groups

\* ------------------------------------------------------------------ C10
\* C10: in every duplicate group each member comes earlier in the traversal's
\* candidate sequence than the members after it, so the first member is the one
\* visited earliest.
C10_GroupOrderIsTraversalOrder ==
    \A i \in 1..Len(groups) :
        \A j, k \in 1..Len(groups[i]) :
            j < k => /\ IndexOf(files, groups[i][j]) > 0
                     /\ IndexOf(files, groups[i][j]) < IndexOf(files, groups[i][k])

\* A group whose traversal order is not the order of its paths' numbers.
C10_Witness ==
    /\ Grouped
    /\ \E i \in 1..Len(groups) :
          /\ Len(groups[i]) >= 3
          /\ \E j, k \in 1..Len(groups[i]) : j < k /\ groups[i][j] > groups[i][k]

====
